---- MODULE Spec2Model ----
(***************************************************************************)
(* Model of the Bitcoin legacy-transaction codec of src/src/lib.rs:        *)
(* CompactSize, Txid (hex text form), OutPoint, Script, TransactionInput   *)
(* and BitcoinTransaction, with their to_bytes / from_bytes.               *)
(*                                                                         *)
(* Integers wider than 31 bits are kept at their full width as             *)
(* little-endian sequences of 16-bit limbs: a u16 is 1 limb, a u32 is 2,   *)
(* a u64 and a usize (64-bit target) are 4.  Buffer lengths, offsets and   *)
(* consumed counts are bounded by the length of a buffer that exists, so   *)
(* they are plain integers.  A byte is an integer in 0..255.               *)
(***************************************************************************)
EXTENDS Integers, Sequences, FiniteSets, TLC

VARIABLES obj, buf, text, src, out, prev

vars == <<obj, buf, text, src, out, prev>>

----------------------------------------------------------------------------
(* Bounds of the exploration *)

\* largest number of inputs of a constructed BitcoinTransaction
MaxInputs == 2
\* largest number of bytes that follow the first byte of a hand-made buffer
MaxTail == 9

----------------------------------------------------------------------------
(* Fixed-width unsigned integers as little-endian 16-bit limbs *)

Base == 256 * 256

Zeros(k) == [i \in 1..k |-> 0]

\* a small non-negative integer (< 2^31) as a k-limb number, k >= 2
FromInt(n, k) == [i \in 1..k |-> IF i = 1 THEN n % Base
                                 ELSE IF i = 2 THEN n \div Base ELSE 0]

\* the integer a limb number below 2^31 stands for
ToInt(x) == x[1] + (IF Len(x) >= 2 THEN Base * x[2] ELSE 0)

\* a < b for two numbers of the same width
LtW(a, b) == \E i \in 1..Len(a) : /\ a[i] < b[i]
                                  /\ \A j \in (i+1)..Len(a) : a[j] = b[j]

LeW(a, b) == a = b \/ LtW(a, b)

\* a + b at the width of a: the wrapped sum and whether it overflowed
AddW(a, b) ==
    LET k == Len(a)
        c[i \in 0..k] == IF i = 0 THEN 0 ELSE (a[i] + b[i] + c[i-1]) \div Base
    IN  [sum |-> [i \in 1..k |-> (a[i] + b[i] + c[i-1]) % Base],
         overflow |-> c[k] = 1]

\* `x as u8`, `x as u16`, `x as u32`: keep the low bits
as_u8(x) == x[1] % 256
as_u16(x) == SubSeq(x, 1, 1)
as_u32(x) == SubSeq(x, 1, 2)
\* `x as u64` of a narrower unsigned value: zero-extend
as_u64(x) == x \o Zeros(4 - Len(x))
\* `b as u64` of a byte
u8_as_u64(b) == <<b, 0, 0, 0>>

\* number of limbs of usize on the 64-bit target the crate is built for
UsizeLimbs == 4
\* `x as usize` of a u64
as_usize(x) == SubSeq(x, 1, UsizeLimbs)

\* faulty variant: most significant byte first
to_be_bytes(x) == [j \in 1..(2 * Len(x)) |->
                      IF j % 2 = 1 THEN x[Len(x) + 1 - (j + 1) \div 2] \div 256
                                   ELSE x[Len(x) + 1 - j \div 2] % 256]

\* uN::to_le_bytes: least significant byte first
to_le_bytes(x) == [j \in 1..(2 * Len(x)) |->
                      IF j % 2 = 1 THEN x[(j + 1) \div 2] % 256
                                   ELSE x[j \div 2] \div 256]

\* uN::from_le_bytes of 2, 4 or 8 bytes
from_le_bytes(b) == [i \in 1..(Len(b) \div 2) |-> b[2*i - 1] + 256 * b[2*i]]

\* &bytes[from..] with a 0-based start
SliceFrom(bytes, from) == SubSeq(bytes, from + 1, Len(bytes))
\* &bytes[from..to] with 0-based, half-open bounds
Slice(bytes, from, to) == SubSeq(bytes, from + 1, to)

----------------------------------------------------------------------------
(* Results: Result<(T, usize), BitcoinError>, or a panic / abort *)

Ok(v, n) == [tag |-> "Ok", value |-> v, consumed |-> n]
Err(e) == [tag |-> "Err", err |-> e]
Panic(why) == [tag |-> "Panic", why |-> why]
Abort(why) == [tag |-> "Abort", why |-> why]

InsufficientBytes == Err("InsufficientBytes")

----------------------------------------------------------------------------
(* CompactSize *)

CompactSize_new(value) == [value |-> value]

\* faulty variant: the one-byte class taken one value too far (0..=0xFD)
CompactSize_to_bytes_fd(self) ==
    IF LeW(self.value, <<253, 0, 0, 0>>)
    THEN <<as_u8(self.value)>>
    ELSE IF LeW(self.value, <<65535, 0, 0, 0>>)
    THEN <<253>> \o to_le_bytes(as_u16(self.value))
    ELSE IF LeW(self.value, <<65535, 65535, 0, 0>>)
    THEN <<254>> \o to_le_bytes(as_u32(self.value))
    ELSE <<255>> \o to_le_bytes(self.value)

CompactSize_to_bytes(self) ==
    IF LeW(self.value, <<252, 0, 0, 0>>)
    THEN <<as_u8(self.value)>>
    ELSE IF LeW(self.value, <<65535, 0, 0, 0>>)
    THEN <<253>> \o to_le_bytes(as_u16(self.value))
    ELSE IF LeW(self.value, <<65535, 65535, 0, 0>>)
    THEN <<254>> \o to_le_bytes(as_u32(self.value))
    ELSE <<255>> \o to_le_bytes(self.value)

\* faulty variant: a prefix without its bytes falls through to the one-byte arm
CompactSize_from_bytes_lenient(bytes) ==
    IF Len(bytes) = 0 THEN InsufficientBytes
    ELSE IF bytes[1] = 253 /\ Len(bytes) >= 3
    THEN Ok(CompactSize_new(as_u64(from_le_bytes(Slice(bytes, 1, 3)))), 3)
    ELSE IF bytes[1] = 254 /\ Len(bytes) >= 5
    THEN Ok(CompactSize_new(as_u64(from_le_bytes(Slice(bytes, 1, 5)))), 5)
    ELSE IF bytes[1] = 255 /\ Len(bytes) >= 9
    THEN Ok(CompactSize_new(from_le_bytes(Slice(bytes, 1, 9))), 9)
    ELSE Ok(CompactSize_new(u8_as_u64(bytes[1])), 1)

\* faulty variant: a non-minimal 0xFD encoding is rejected
CompactSize_from_bytes_strict(bytes) ==
    IF Len(bytes) = 0 THEN InsufficientBytes
    ELSE IF bytes[1] = 253
    THEN IF Len(bytes) < 3 THEN InsufficientBytes
         ELSE LET v == as_u64(from_le_bytes(Slice(bytes, 1, 3)))
              IN  IF LeW(v, <<252, 0, 0, 0>>) THEN Err("InvalidFormat")
                  ELSE Ok(CompactSize_new(v), 3)
    ELSE IF bytes[1] = 254
    THEN IF Len(bytes) < 5 THEN InsufficientBytes
         ELSE Ok(CompactSize_new(as_u64(from_le_bytes(Slice(bytes, 1, 5)))), 5)
    ELSE IF bytes[1] = 255
    THEN IF Len(bytes) < 9 THEN InsufficientBytes
         ELSE Ok(CompactSize_new(from_le_bytes(Slice(bytes, 1, 9))), 9)
    ELSE Ok(CompactSize_new(u8_as_u64(bytes[1])), 1)

CompactSize_from_bytes(bytes) ==
    IF Len(bytes) = 0 THEN InsufficientBytes
    ELSE IF bytes[1] = 253
    THEN IF Len(bytes) < 3 THEN InsufficientBytes
         ELSE Ok(CompactSize_new(as_u64(from_le_bytes(Slice(bytes, 1, 3)))), 3)
    ELSE IF bytes[1] = 254
    THEN IF Len(bytes) < 5 THEN InsufficientBytes
         ELSE Ok(CompactSize_new(as_u64(from_le_bytes(Slice(bytes, 1, 5)))), 5)
    ELSE IF bytes[1] = 255
    THEN IF Len(bytes) < 9 THEN InsufficientBytes
         ELSE Ok(CompactSize_new(from_le_bytes(Slice(bytes, 1, 9))), 9)
    ELSE Ok(CompactSize_new(u8_as_u64(bytes[1])), 1)

----------------------------------------------------------------------------
(* Txid and its textual (serde) form *)

Txid(array) == array

HexLower == <<"0", "1", "2", "3", "4", "5", "6", "7",
              "8", "9", "a", "b", "c", "d", "e", "f">>
HexUpper == <<"0", "1", "2", "3", "4", "5", "6", "7",
              "8", "9", "A", "B", "C", "D", "E", "F">>

\* format!("{:02x}", b): two lowercase hex digits, high nibble first
format_02x(b) == <<HexLower[(b \div 16) + 1], HexLower[(b % 16) + 1]>>

RECURSIVE Concat(_)
\* Iterator::collect::<String>() of a sequence of strings
Concat(ss) == IF Len(ss) = 0 THEN <<>> ELSE Head(ss) \o Concat(Tail(ss))

Txid_serialize(self) == Concat([i \in 1..Len(self) |-> format_02x(self[i])])

\* the value of one hex digit as hex::decode reads it (either case), -1 if none
hex_val(c) ==
    IF \E i \in 1..16 : HexLower[i] = c
    THEN (CHOOSE i \in 1..16 : HexLower[i] = c) - 1
    ELSE IF \E i \in 1..16 : HexUpper[i] = c
    THEN (CHOOSE i \in 1..16 : HexUpper[i] = c) - 1
    ELSE -1

\* hex::decode: odd length and non-hex characters are errors
hex_decode(s) ==
    IF Len(s) % 2 = 1 THEN Err("OddLength")
    ELSE IF \E i \in 1..Len(s) : hex_val(s[i]) = -1
    THEN Err("InvalidHexCharacter")
    ELSE [tag |-> "Ok",
          value |-> [i \in 1..(Len(s) \div 2) |->
                        16 * hex_val(s[2*i - 1]) + hex_val(s[2*i])]]

\* faulty variant: the length of the decoded bytes is not validated
Txid_deserialize_nolen(s) ==
    LET bytes == hex_decode(s)
    IN  IF bytes.tag # "Ok" THEN Err("custom")
        ELSE [tag |-> "Ok", value |-> Txid(bytes.value)]

Txid_deserialize(s) ==
    LET bytes == hex_decode(s)
    IN  IF bytes.tag # "Ok" THEN Err("custom")
        ELSE IF Len(bytes.value) # 32 THEN Err("custom")
        ELSE [tag |-> "Ok", value |-> Txid(bytes.value)]

----------------------------------------------------------------------------
(* OutPoint *)

OutPoint_new(txid, vout) == [txid |-> Txid(txid), vout |-> vout]

OutPoint_to_bytes(self) == self.txid \o to_le_bytes(self.vout)

OutPoint_from_bytes(bytes) ==
    IF Len(bytes) < 36 THEN InsufficientBytes
    ELSE Ok(OutPoint_new(Slice(bytes, 0, 32),
                         from_le_bytes(Slice(bytes, 32, 36))), 36)

----------------------------------------------------------------------------
(* Script *)

Script_new(bytes) == [bytes |-> bytes]

\* `self.bytes.len() as u64`
len_as_u64(bytes) == FromInt(Len(bytes), 4)

Script_to_bytes(self) ==
    CompactSize_to_bytes(CompactSize_new(len_as_u64(self.bytes))) \o self.bytes

\* `start_index + script_len` on usize.  With overflow checks (debug builds)
\* an overflowing sum panics; without them (release builds) it wraps.
usize_add(a, b, overflow_checks) ==
    LET s == AddW(a, b)
    IN  IF s.overflow /\ overflow_checks
        THEN Panic("attempt to add with overflow")
        ELSE [tag |-> "Ok", value |-> s.sum]

\* faulty variant: the payload is sliced to the end of the buffer (bytes[start..])
Script_from_bytes_rest(bytes, overflow_checks) ==
    LET cs == CompactSize_from_bytes(bytes)
    IN  IF cs.tag # "Ok" THEN cs
        ELSE
        LET compact_size_len == cs.consumed
            script_len == as_usize(cs.value.value)
            start_index == FromInt(compact_size_len, UsizeLimbs)
            end_index == usize_add(start_index, script_len, overflow_checks)
        IN  IF end_index.tag # "Ok" THEN end_index
            ELSE IF LtW(FromInt(Len(bytes), UsizeLimbs), end_index.value)
            THEN InsufficientBytes
            ELSE IF LtW(end_index.value, start_index)
            THEN Panic("slice index starts after its end")
            ELSE Ok(Script_new(SliceFrom(bytes, compact_size_len)),
                    ToInt(end_index.value))

Script_from_bytes(bytes, overflow_checks) ==
    LET cs == CompactSize_from_bytes(bytes)
    IN  IF cs.tag # "Ok" THEN cs
        ELSE
        LET compact_size_len == cs.consumed
            script_len == as_usize(cs.value.value)
            start_index == FromInt(compact_size_len, UsizeLimbs)
            end_index == usize_add(start_index, script_len, overflow_checks)
        IN  IF end_index.tag # "Ok" THEN end_index
            ELSE IF LtW(FromInt(Len(bytes), UsizeLimbs), end_index.value)
            THEN InsufficientBytes
            ELSE IF LtW(end_index.value, start_index)
            THEN Panic("slice index starts after its end")
            ELSE Ok(Script_new(Slice(bytes, compact_size_len,
                                     ToInt(end_index.value))),
                    ToInt(end_index.value))

----------------------------------------------------------------------------
(* TransactionInput *)

TransactionInput_new(previous_output, script_sig, sequence) ==
    [previous_output |-> previous_output,
     script_sig |-> script_sig,
     sequence |-> sequence]

\* faulty variant: the sequence is written before the script
TransactionInput_to_bytes_swapped(self) ==
    OutPoint_to_bytes(self.previous_output)
        \o to_le_bytes(self.sequence)
        \o Script_to_bytes(self.script_sig)

TransactionInput_to_bytes(self) ==
    OutPoint_to_bytes(self.previous_output)
        \o Script_to_bytes(self.script_sig)
        \o to_le_bytes(self.sequence)

TransactionInput_from_bytes(bytes, overflow_checks) ==
    LET op == OutPoint_from_bytes(bytes)
    IN  IF op.tag # "Ok" THEN op
        ELSE
        LET outpoint_len == op.consumed
            sc == Script_from_bytes(SliceFrom(bytes, outpoint_len),
                                    overflow_checks)
        IN  IF sc.tag # "Ok" THEN sc
            ELSE
            LET sequence_start == outpoint_len + sc.consumed
                sequence_end == sequence_start + 4
            IN  IF Len(bytes) < sequence_end THEN InsufficientBytes
                ELSE Ok(TransactionInput_new(
                            op.value, sc.value,
                            from_le_bytes(Slice(bytes, sequence_start,
                                                sequence_end))),
                        sequence_end)

----------------------------------------------------------------------------
(* BitcoinTransaction *)

BitcoinTransaction_new(version, inputs, lock_time) ==
    [version |-> version, inputs |-> inputs, lock_time |-> lock_time]

BitcoinTransaction_to_bytes(self) ==
    to_le_bytes(self.version)
        \o CompactSize_to_bytes(CompactSize_new(len_as_u64(self.inputs)))
        \o Concat([i \in 1..Len(self.inputs) |->
                      TransactionInput_to_bytes(self.inputs[i])])
        \o to_le_bytes(self.lock_time)

\* size_of::<TransactionInput>() on the 64-bit target is 64 bytes
\* (36 OutPoint + 24 Vec + 4 sequence), so capacity * 64 exceeds isize::MAX
\* exactly when capacity >= 2^57
CapacityOverflow(capacity) == capacity[4] >= 512

\* Vec::with_capacity(capacity): no allocation for 0; a panic when the byte
\* size exceeds isize::MAX; otherwise a request to the allocator, which
\* grants at most alloc_limit elements and aborts the process beyond that.
Vec_with_capacity(capacity, alloc_limit) ==
    IF CapacityOverflow(capacity) THEN Panic("capacity overflow")
    ELSE IF LtW(alloc_limit, capacity) THEN Abort("memory allocation failed")
    ELSE [tag |-> "Ok", value |-> <<>>]

\* faulty variant: the loop stops after the first input
DecodeInputs_one(bytes, input_count, i, inputs, offset, overflow_checks) ==
    IF ~LtW(FromInt(i, UsizeLimbs), input_count)
    THEN Ok(inputs, offset)
    ELSE LET r == TransactionInput_from_bytes(SliceFrom(bytes, offset),
                                              overflow_checks)
         IN  IF r.tag # "Ok" THEN r
             ELSE Ok(Append(inputs, r.value), offset + r.consumed)

RECURSIVE DecodeInputs(_, _, _, _, _, _)
\* the loop `for _ in 0..input_count`, at iteration i, with the inputs pushed
\* so far and the offset reached
DecodeInputs(bytes, input_count, i, inputs, offset, overflow_checks) ==
    IF ~LtW(FromInt(i, UsizeLimbs), input_count)
    THEN Ok(inputs, offset)
    ELSE LET r == TransactionInput_from_bytes(SliceFrom(bytes, offset),
                                              overflow_checks)
         IN  IF r.tag # "Ok" THEN r
             ELSE DecodeInputs(bytes, input_count, i + 1,
                               Append(inputs, r.value),
                               offset + r.consumed, overflow_checks)

BitcoinTransaction_from_bytes(bytes, overflow_checks, alloc_limit) ==
    IF Len(bytes) < 4 THEN InsufficientBytes
    ELSE
    LET version == from_le_bytes(Slice(bytes, 0, 4))
        cs == CompactSize_from_bytes(SliceFrom(bytes, 4))
    IN  IF cs.tag # "Ok" THEN cs
        ELSE
        LET input_count == as_usize(cs.value.value)
            offset0 == 4 + cs.consumed
            vec == Vec_with_capacity(input_count, alloc_limit)
        IN  IF vec.tag # "Ok" THEN vec
            ELSE
            LET ins == DecodeInputs(bytes, input_count, 0, vec.value,
                                    offset0, overflow_checks)
            IN  IF ins.tag # "Ok" THEN ins
                ELSE
                LET offset == ins.consumed
                IN  IF Len(bytes) < offset + 4 THEN InsufficientBytes
                    ELSE Ok(BitcoinTransaction_new(
                                version, ins.value,
                                from_le_bytes(Slice(bytes, offset,
                                                    offset + 4))),
                            offset + 4)

----------------------------------------------------------------------------
(* The values the callers construct and the buffers they hand in *)

U64Max == <<65535, 65535, 65535, 65535>>

\* u64 values: the CompactSize class boundaries and their neighbours, the
\* capacity-overflow threshold 2^57, and the values near 2^64
U64Samples ==
    { <<0, 0, 0, 0>>, <<1, 0, 0, 0>>, <<2, 0, 0, 0>>, <<3, 0, 0, 0>>,
      <<4, 0, 0, 0>>, <<5, 0, 0, 0>>, <<252, 0, 0, 0>>, <<253, 0, 0, 0>>,
      <<254, 0, 0, 0>>, <<65535, 0, 0, 0>>, <<0, 1, 0, 0>>,
      <<65535, 65535, 0, 0>>, <<0, 0, 1, 0>>, <<772, 258, 1798, 1284>>,
      <<65535, 65535, 65535, 511>>, <<0, 0, 0, 512>>,
      <<65526, 65535, 65535, 65535>>, <<65527, 65535, 65535, 65535>>,
      U64Max }

\* u32 values: 0, 1, 0x01020304 and u32::MAX
U32Samples == { <<0, 0>>, <<1, 0>>, <<772, 258>>, <<65535, 65535>> }

TxidSamples == { [i \in 1..32 |-> 0],
                 [i \in 1..32 |-> (i * 37) % 256],
                 [i \in 1..32 |-> 255] }

\* script payloads: empty, short, and 253 bytes (the first length that
\* needs the 0xFD prefix)
ScriptSamples == { <<>>, <<118, 169, 20>>, [i \in 1..253 |-> (i * 3) % 256] }

\* the inputs transactions are assembled from
InputPool ==
    { TransactionInput_new(OutPoint_new([i \in 1..32 |-> 0], <<0, 0>>),
                           Script_new(<<>>), <<65535, 65535>>),
      TransactionInput_new(OutPoint_new([i \in 1..32 |-> (i * 37) % 256],
                                        <<65535, 65535>>),
                           Script_new(<<118, 169, 20>>), <<1, 0>>),
      TransactionInput_new(OutPoint_new([i \in 1..32 |-> 255], <<772, 258>>),
                           Script_new([i \in 1..253 |-> (i * 3) % 256]),
                           <<772, 258>>) }

InputLists == UNION { [1..n -> InputPool] : n \in 0..MaxInputs }

\* bytes of hand-made buffers
ByteSamples == { 0, 5, 252, 253, 254, 255 }

\* bytes appended after a decoded prefix
Tails == { <<>>, <<0>>, <<253, 255, 255>> }

\* the allocator grants every request up to 2^16 elements; a larger one it
\* may grant or refuse, up to the capacity-overflow threshold
AllocLimits == { <<0, 1, 0, 0>>, <<65535, 65535, 65535, 511>> }

Components == { "CompactSize", "OutPoint", "Script", "TransactionInput",
                "BitcoinTransaction" }

NoObject == [kind |-> "none"]
NoResult == [decoder |-> "none", res |-> [tag |-> "none"]]

----------------------------------------------------------------------------
(* State machine: a caller constructs a value, encodes it, possibly cuts,  *)
(* re-declares or hand-makes the buffer, decodes it, and may decode again  *)
(* from the consumed prefix followed by other bytes.                       *)

Init ==
    /\ obj = NoObject
    /\ buf = <<>>
    /\ text = <<>>
    /\ src = "none"
    /\ out = NoResult
    /\ prev = NoResult

Fresh == obj = NoObject /\ src = "none"

NewCompactSize ==
    /\ Fresh
    /\ \E value \in U64Samples :
          obj' = [kind |-> "CompactSize", val |-> CompactSize_new(value)]
    /\ UNCHANGED <<buf, text, src, out, prev>>

NewTxid ==
    /\ Fresh
    /\ \E array \in TxidSamples : obj' = [kind |-> "Txid", val |-> Txid(array)]
    /\ UNCHANGED <<buf, text, src, out, prev>>

NewOutPoint ==
    /\ Fresh
    /\ \E txid \in TxidSamples, vout \in U32Samples :
          obj' = [kind |-> "OutPoint", val |-> OutPoint_new(txid, vout)]
    /\ UNCHANGED <<buf, text, src, out, prev>>

NewScript ==
    /\ Fresh
    /\ \E bytes \in ScriptSamples :
          obj' = [kind |-> "Script", val |-> Script_new(bytes)]
    /\ UNCHANGED <<buf, text, src, out, prev>>

NewTransactionInput ==
    /\ Fresh
    /\ \E txid \in TxidSamples, vout \in { <<0, 0>>, <<65535, 65535>> },
          bytes \in ScriptSamples, sequence \in U32Samples :
          obj' = [kind |-> "TransactionInput",
                  val |-> TransactionInput_new(OutPoint_new(txid, vout),
                                               Script_new(bytes), sequence)]
    /\ UNCHANGED <<buf, text, src, out, prev>>

NewBitcoinTransaction ==
    /\ Fresh
    /\ \E version \in { <<1, 0>>, <<65535, 65535>> }, inputs \in InputLists,
          lock_time \in { <<0, 0>>, <<772, 258>> } :
          obj' = [kind |-> "BitcoinTransaction",
                  val |-> BitcoinTransaction_new(version, inputs, lock_time)]
    /\ UNCHANGED <<buf, text, src, out, prev>>

Encode(kind, bytes) ==
    /\ obj.kind = kind
    /\ src = "none"
    /\ buf' = bytes
    /\ src' = "enc"
    /\ UNCHANGED <<obj, text, out, prev>>

CompactSizeToBytes == Encode("CompactSize", CompactSize_to_bytes(obj.val))
OutPointToBytes == Encode("OutPoint", OutPoint_to_bytes(obj.val))
ScriptToBytes == Encode("Script", Script_to_bytes(obj.val))
TransactionInputToBytes ==
    Encode("TransactionInput", TransactionInput_to_bytes(obj.val))
BitcoinTransactionToBytes ==
    Encode("BitcoinTransaction", BitcoinTransaction_to_bytes(obj.val))

\* the caller passes a proper prefix of an encoding
Truncate ==
    /\ src = "enc"
    /\ out = NoResult
    /\ \E k \in 0..(Len(buf) - 1) : buf' = SubSeq(buf, 1, k)
    /\ src' = "trunc"
    /\ UNCHANGED <<obj, text, out, prev>>

\* offset of the length prefix inside an encoding
PrefixOffset(kind) == IF kind = "Script" THEN 0
                      ELSE IF kind = "TransactionInput" THEN 36 ELSE 4

\* the caller passes an encoding whose length prefix declares another value
Redeclare ==
    /\ src = "enc"
    /\ out = NoResult
    /\ obj.kind \in { "Script", "TransactionInput", "BitcoinTransaction" }
    /\ \E declared \in U64Samples :
          LET at == PrefixOffset(obj.kind)
              w == CompactSize_from_bytes(SliceFrom(buf, at)).consumed
          IN  buf' = Slice(buf, 0, at)
                        \o CompactSize_to_bytes(CompactSize_new(declared))
                        \o SliceFrom(buf, at + w)
    /\ src' = "relen"
    /\ UNCHANGED <<obj, text, out, prev>>

\* the caller passes a hand-made buffer: an optional 4-byte head, a first
\* byte, and up to MaxTail bytes after it
Raw ==
    /\ Fresh
    /\ \E head \in { <<>>, <<1, 0, 0, 0>> }, p \in ByteSamples,
          first \in ByteSamples, fill \in ByteSamples, n \in 0..MaxTail :
          buf' = head \o <<p>> \o [i \in 1..n |-> IF i = 1 THEN first ELSE fill]
    /\ src' = "raw"
    /\ UNCHANGED <<obj, text, out, prev>>

\* which decoder the caller applies to the buffer it holds
Decodes(kind) ==
    /\ src \in { "enc", "trunc", "relen", "raw", "refeed" }
    /\ out = NoResult
    /\ IF src = "refeed" THEN prev.decoder = kind
       ELSE IF src = "raw" THEN TRUE
       ELSE obj.kind = kind

Decoded(kind, res) ==
    /\ out' = [decoder |-> kind, res |-> res]
    /\ UNCHANGED <<obj, buf, text, src, prev>>

CompactSizeFromBytes ==
    /\ Decodes("CompactSize")
    /\ Decoded("CompactSize", CompactSize_from_bytes(buf))

OutPointFromBytes ==
    /\ Decodes("OutPoint")
    /\ Decoded("OutPoint", OutPoint_from_bytes(buf))

ScriptFromBytes ==
    /\ Decodes("Script")
    /\ \E overflow_checks \in BOOLEAN :
          Decoded("Script", Script_from_bytes(buf, overflow_checks))

TransactionInputFromBytes ==
    /\ Decodes("TransactionInput")
    /\ \E overflow_checks \in BOOLEAN :
          Decoded("TransactionInput",
                  TransactionInput_from_bytes(buf, overflow_checks))

BitcoinTransactionFromBytes ==
    /\ Decodes("BitcoinTransaction")
    /\ \E overflow_checks \in BOOLEAN, alloc_limit \in AllocLimits :
          Decoded("BitcoinTransaction",
                  BitcoinTransaction_from_bytes(buf, overflow_checks,
                                                alloc_limit))

\* after a successful decode the caller decodes again from the consumed
\* prefix followed by other bytes
Refeed ==
    /\ out.decoder \in Components
    /\ out.res.tag = "Ok"
    /\ src \in { "enc", "relen", "raw" }
    /\ \E tail \in Tails : buf' = Slice(buf, 0, out.res.consumed) \o tail
    /\ prev' = out
    /\ out' = NoResult
    /\ src' = "refeed"
    /\ UNCHANGED <<obj, text>>

TxidSerialize ==
    /\ obj.kind = "Txid"
    /\ src = "none"
    /\ text' = Txid_serialize(obj.val)
    /\ src' = "ser"
    /\ UNCHANGED <<obj, buf, out, prev>>

ToUpper(s) == [i \in 1..Len(s) |->
                  IF hex_val(s[i]) = -1 THEN s[i] ELSE HexUpper[hex_val(s[i]) + 1]]

\* the strings a deserializer may be handed instead of a serialized Txid
Mangled(s) ==
    { SubSeq(s, 1, Len(s) - 2), SubSeq(s, 1, Len(s) - 1), s \o <<"0", "0">>,
      <<"0", "x">> \o s, ToUpper(s), <<>>,
      [s EXCEPT ![1] = "g"], [s EXCEPT ![Len(s)] = " "] }

Mangle ==
    /\ src = "ser"
    /\ out = NoResult
    /\ \E t \in Mangled(text) : text' = t
    /\ src' = "mangled"
    /\ UNCHANGED <<obj, buf, out, prev>>

TxidDeserialize ==
    /\ src \in { "ser", "mangled" }
    /\ out = NoResult
    /\ out' = [decoder |-> "Txid", res |-> Txid_deserialize(text)]
    /\ UNCHANGED <<obj, buf, text, src, prev>>

Next ==
    \/ NewCompactSize
    \/ NewTxid
    \/ NewOutPoint
    \/ NewScript
    \/ NewTransactionInput
    \/ NewBitcoinTransaction
    \/ CompactSizeToBytes
    \/ OutPointToBytes
    \/ ScriptToBytes
    \/ TransactionInputToBytes
    \/ BitcoinTransactionToBytes
    \/ Truncate
    \/ Redeclare
    \/ Raw
    \/ CompactSizeFromBytes
    \/ OutPointFromBytes
    \/ ScriptFromBytes
    \/ TransactionInputFromBytes
    \/ BitcoinTransactionFromBytes
    \/ Refeed
    \/ TxidSerialize
    \/ Mangle
    \/ TxidDeserialize

Spec == Init /\ [][Next]_vars

----------------------------------------------------------------------------
(* Vocabulary of the properties, written from the wire format's tables    *)

\* the 4 little-endian bytes of a u32
LE4(x) == <<x[1] % 256, x[1] \div 256, x[2] % 256, x[2] \div 256>>

\* the u32 that 4 little-endian bytes at 0-based offset `at` stand for
U32At(bytes, at) == <<bytes[at + 1] + 256 * bytes[at + 2],
                      bytes[at + 3] + 256 * bytes[at + 4]>>

\* the table of the CompactSize encoding
VarLenTable(v) ==
    IF v[2] = 0 /\ v[3] = 0 /\ v[4] = 0 /\ v[1] <= 252
    THEN <<v[1]>>
    ELSE IF v[2] = 0 /\ v[3] = 0 /\ v[4] = 0
    THEN <<253, v[1] % 256, v[1] \div 256>>
    ELSE IF v[3] = 0 /\ v[4] = 0
    THEN <<254>> \o LE4(<<v[1], v[2]>>)
    ELSE <<255>> \o LE4(<<v[1], v[2]>>) \o LE4(<<v[3], v[4]>>)

\* the table for a length below 65536
VarLenOfLen(n) == VarLenTable(<<n, 0, 0, 0>>)

InputLayout(in) ==
    in.previous_output.txid \o LE4(in.previous_output.vout)
        \o VarLenOfLen(Len(in.script_sig.bytes)) \o in.script_sig.bytes
        \o LE4(in.sequence)

InputLength(in) ==
    36 + Len(VarLenOfLen(Len(in.script_sig.bytes)))
       + Len(in.script_sig.bytes) + 4

RECURSIVE InputsLayout(_)
InputsLayout(ins) ==
    IF Len(ins) = 0 THEN <<>>
    ELSE InputLayout(Head(ins)) \o InputsLayout(Tail(ins))

RECURSIVE InputsLength(_)
InputsLength(ins) ==
    IF Len(ins) = 0 THEN 0 ELSE InputLength(Head(ins)) + InputsLength(Tail(ins))

TransactionLayout(t) ==
    LE4(t.version) \o VarLenOfLen(Len(t.inputs)) \o InputsLayout(t.inputs)
        \o LE4(t.lock_time)

\* the end W + L a length prefix declares, one limb wider than usize so
\* that it cannot wrap
DeclaredEnd(cs) == AddW(cs.value.value \o <<0>>, FromInt(cs.consumed, 5)).sum

\* the prefix of the buffer declares more bytes than the buffer holds
DeclaresBeyond(bytes) ==
    LET cs == CompactSize_from_bytes(bytes)
    IN  cs.tag = "Ok" /\ LtW(FromInt(Len(bytes), 5), DeclaredEnd(cs))

HexChars == { HexLower[i] : i \in 1..16 } \cup { HexUpper[i] : i \in 1..16 }

ValidHex(s) == Len(s) % 2 = 0 /\ \A i \in 1..Len(s) : s[i] \in HexChars

RECURSIVE InputsChained(_, _, _, _)
\* inputs i.. of `ins` are the ones decoded from `bytes` one after the other
\* from offset `at`, and the last one ends at `last`
InputsChained(bytes, ins, i, at) ==
    IF i > Len(ins) THEN at
    ELSE LET r == TransactionInput_from_bytes(SliceFrom(bytes, at), TRUE)
         IN  IF r.tag = "Ok" /\ r.value = ins[i]
             THEN InputsChained(bytes, ins, i + 1, at + r.consumed)
             ELSE -1

----------------------------------------------------------------------------
(* Properties *)

\* C1: decoding the encoding of any BitcoinTransaction succeeds and returns
\* exactly the transaction and the length of the encoding.
C1_RoundTrip ==
    (out.decoder = "BitcoinTransaction" /\ src = "enc")
        => out.res = Ok(obj.val, Len(buf))

C1_Witness ==
    /\ out.decoder = "BitcoinTransaction"
    /\ src = "enc"
    /\ Len(obj.val.inputs) = MaxInputs
    /\ obj.val.version = <<65535, 65535>>
    /\ out.res.tag = "Ok"

\* C2: Script::from_bytes fails with InsufficientBytes on every buffer
\* whose length prefix (width W, value L) declares W + L beyond the buffer,
\* whatever L is: the end-index arithmetic never overflows or wraps.
C2_DeclaredBeyondIsInsufficientBytes ==
    (out.decoder = "Script" /\ DeclaresBeyond(buf))
        => out.res = InsufficientBytes

\* C3: BitcoinTransaction::from_bytes fails with InsufficientBytes, and in
\* no other way, when the declared input count exceeds the inputs present,
\* for every declared count up to 2^64-1.
C3_ShortInputsIsInsufficientBytes ==
    /\ (/\ out.decoder = "BitcoinTransaction"
        /\ src = "relen"
        /\ LtW(len_as_u64(obj.val.inputs),
               CompactSize_from_bytes(SliceFrom(buf, 4)).value.value))
          => out.res = InsufficientBytes
    /\ (out.decoder = "BitcoinTransaction" /\ out.res.tag # "Ok")
          => out.res = InsufficientBytes

\* C4: CompactSize::to_bytes is the shortest form of the table for every
\* u64, and from_bytes of it returns the value and the encoding's length.
C4_CompactSizeTable ==
    /\ (obj.kind = "CompactSize" /\ src = "enc")
          => buf = VarLenTable(obj.val.value)
    /\ (out.decoder = "CompactSize" /\ src = "enc")
          => out.res = Ok(obj.val, Len(buf))

C4_Witness ==
    /\ obj.kind = "CompactSize"
    /\ src = "enc"
    /\ obj.val.value = U64Max
    /\ Len(buf) = 9
    /\ out.res.tag = "Ok"

\* C5: CompactSize::from_bytes on any buffer: a first byte 0xFD/0xFE/0xFF
\* with 3/5/9 bytes present gives the following 2/4/8 bytes little-endian
\* and consumed 3/5/9 (with fewer bytes present, InsufficientBytes); any
\* other first byte is the value, consumed 1.  Non-minimal encodings are
\* accepted: FD 05 00 decodes to 5, consumed 3.
C5_CompactSizeDecode ==
    (out.decoder = "CompactSize" /\ Len(buf) > 0) =>
        /\ (buf[1] = 253 /\ Len(buf) >= 3) =>
              out.res = Ok([value |-> <<buf[2] + 256 * buf[3], 0, 0, 0>>], 3)
        /\ (buf[1] = 254 /\ Len(buf) >= 5) =>
              out.res = Ok([value |-> U32At(buf, 1) \o <<0, 0>>], 5)
        /\ (buf[1] = 255 /\ Len(buf) >= 9) =>
              out.res = Ok([value |-> U32At(buf, 1) \o U32At(buf, 5)], 9)
        /\ (buf[1] = 253 /\ Len(buf) < 3) => out.res = InsufficientBytes
        /\ (buf[1] = 254 /\ Len(buf) < 5) => out.res = InsufficientBytes
        /\ (buf[1] = 255 /\ Len(buf) < 9) => out.res = InsufficientBytes
        /\ buf[1] < 253 => out.res = Ok([value |-> <<buf[1], 0, 0, 0>>], 1)
        /\ buf = <<253, 5, 0>> => out.res = Ok([value |-> <<5, 0, 0, 0>>], 3)

C5_Witness ==
    /\ out.decoder = "CompactSize"
    /\ buf = <<253, 5, 0>>
    /\ out.res.tag = "Ok"

\* C6: every decoder fails with InsufficientBytes on every proper prefix of
\* an encoding of its component, and on the empty buffer.
C6_TruncationFails ==
    /\ (out.decoder \in Components /\ src = "trunc")
          => out.res = InsufficientBytes
    /\ (out.decoder \in Components /\ Len(buf) = 0)
          => out.res = InsufficientBytes

C6_Witness ==
    /\ out.decoder = "BitcoinTransaction"
    /\ src = "trunc"
    /\ Len(obj.val.inputs) = 1
    /\ Len(buf) = Len(BitcoinTransaction_to_bytes(obj.val)) - 1
    /\ out.res = InsufficientBytes

\* C7: the encoding of a transaction is version, count, the inputs in order
\* (txid, vout, script length, script, sequence) and lock_time, with no
\* padding, so its length is 4 + W(N) + sum (36 + W(len) + len + 4) + 4; the
\* transaction (1, [], 0) encodes to 01 00 00 00 00 00 00 00 00, which
\* decodes back to it with consumed 9.
C7_Layout ==
    /\ (obj.kind = "BitcoinTransaction" /\ src = "enc") =>
          /\ buf = TransactionLayout(obj.val)
          /\ Len(buf) = 4 + Len(VarLenOfLen(Len(obj.val.inputs)))
                          + InputsLength(obj.val.inputs) + 4
          /\ obj.val = [version |-> <<1, 0>>, inputs |-> <<>>,
                        lock_time |-> <<0, 0>>]
                => /\ buf = <<1, 0, 0, 0, 0, 0, 0, 0, 0>>
                   /\ out.decoder = "BitcoinTransaction"
                         => out.res = Ok(obj.val, 9)
    /\ (obj.kind = "TransactionInput" /\ src = "enc") =>
          /\ buf = InputLayout(obj.val)
          /\ Len(buf) = InputLength(obj.val)

C7_Witness ==
    /\ obj.kind = "BitcoinTransaction"
    /\ src = "enc"
    /\ obj.val = [version |-> <<1, 0>>, inputs |-> <<>>, lock_time |-> <<0, 0>>]
    /\ buf = <<1, 0, 0, 0, 0, 0, 0, 0, 0>>
    /\ out.decoder = "BitcoinTransaction"
    /\ out.res.tag = "Ok"

\* C8: a successful BitcoinTransaction::from_bytes returns as many inputs as
\* the count at offset 4 declares, each decoded where the previous one
\* ended, and version and lock_time are the 4 bytes read, whatever they are.
C8_DecodedMatchesDeclared ==
    (out.decoder = "BitcoinTransaction" /\ out.res.tag = "Ok") =>
        LET cs == CompactSize_from_bytes(SliceFrom(buf, 4))
            t == out.res.value
        IN  /\ cs.tag = "Ok"
            /\ len_as_u64(t.inputs) = cs.value.value
            /\ t.version = U32At(buf, 0)
            /\ InputsChained(buf, t.inputs, 1, 4 + cs.consumed)
                  = out.res.consumed - 4
            /\ t.lock_time = U32At(buf, out.res.consumed - 4)

C8_Witness ==
    /\ out.decoder = "BitcoinTransaction"
    /\ out.res.tag = "Ok"
    /\ src = "relen"
    /\ Len(out.res.value.inputs) = 1
    /\ Len(obj.val.inputs) = 2
    /\ out.res.value.version = <<65535, 65535>>

\* C9: a Txid serializes to 64 lowercase hex characters, byte 0 first, and
\* deserializing them returns the Txid; a string that is not valid hex or
\* does not decode to 32 bytes fails and yields no Txid.
C9_TxidText ==
    /\ src = "ser" =>
          /\ Len(text) = 64
          /\ \A i \in 1..32 :
                /\ text[2*i - 1] = HexLower[(obj.val[i] \div 16) + 1]
                /\ text[2*i] = HexLower[(obj.val[i] % 16) + 1]
    /\ (out.decoder = "Txid" /\ src = "ser")
          => out.res = [tag |-> "Ok", value |-> obj.val]
    /\ (out.decoder = "Txid" /\ (~ValidHex(text) \/ Len(text) # 64))
          => out.res.tag = "Err"

C9_Witness ==
    /\ out.decoder = "Txid"
    /\ src = "ser"
    /\ obj.val[1] = 37
    /\ text[1] = "2" /\ text[2] = "5"
    /\ out.res.tag = "Ok"

\* C10: a successful decode consumes between 1 and len(b) bytes and depends
\* only on the bytes it consumed: decoding the consumed prefix, alone or
\* followed by other bytes, returns the same value and the same count.
C10_ConsumedPrefixDecides ==
    /\ (out.decoder \in Components /\ out.res.tag = "Ok")
          => (1 <= out.res.consumed /\ out.res.consumed <= Len(buf))
    /\ (out.decoder \in Components /\ src = "refeed")
          => out.res = prev.res

C10_Witness ==
    /\ out.decoder = "BitcoinTransaction"
    /\ src = "refeed"
    /\ out.res.tag = "Ok"
    /\ Len(out.res.value.inputs) = 1
    /\ Len(buf) = out.res.consumed + 3

====
